---- MODULE Spec2Model ----
(***************************************************************************)
(* Model of pymoku's signal generator register map (pymoku/_siggen.py),    *)
(* its synth_* staging helpers, and the datalogger session used by the     *)
(* examples.                                                               *)
(*                                                                         *)
(* Python integers are unbounded, registers are 32 bits wide and several   *)
(* fields are 48 bits wide, so an integer is modelled as the set of the    *)
(* positions of its one-bits: x & y is intersection, x | y is union,       *)
(* x << k and x >> k move the positions.  Nothing is truncated.            *)
(***************************************************************************)
EXTENDS Integers, Sequences, FiniteSets, TLC

(* ------------------------------------------------------------------ *)
(* Unbounded non-negative integers as sets of bit positions            *)
(*                                                                     *)
(* The operators that use an argument more than once evaluate it once  *)
(* and bind the value (x \in {a}), so that a nested expression is not  *)
(* evaluated again at every use.                                       *)
(* ------------------------------------------------------------------ *)
Pow2(k) == 2 ^ k

\* the bits of a small non-negative integer literal (< 2^31)
Bits(n) == {i \in 0..30 : (n \div Pow2(i)) % 2 = 1}

RECURSIVE ToInt(_)
\* the integer a small bit set stands for (bits below 30 only)
ToInt(S) == IF S = {} THEN 0
            ELSE LET i == CHOOSE x \in S : TRUE IN Pow2(i) + ToInt(S \ {i})

IsSmall(S) == \A i \in S : i < 30

And(a, b) == a \cap b
Or(a, b) == a \cup b
\* a & ~m for a non-negative a
AndNot(a, m) == a \ m
Shl(a, k) == {i + k : i \in a}
Shr(a, k) == {i - k : i \in {j \in a : j >= k}}

MaxBit(S) == IF S = {} THEN 0 ELSE CHOOSE i \in S : \A j \in S : j <= i

\* the carry into bit i of x + y: generated at a lower bit and propagated up to i
Carry(x, y, i) ==
    \E j \in 0..(i - 1) : j \in x /\ j \in y /\ \A k \in (j + 1)..(i - 1) : k \in x \/ k \in y

\* a + b
Add(a, b) ==
    CHOOSE r \in {{i \in 0..(MaxBit(x \cup y) + 1) : (i \in x) # ((i \in y) # Carry(x, y, i))} :
                     x \in {a}, y \in {b}} : TRUE

\* the borrow into bit i of x - y
Borrow(x, y, i) ==
    \E j \in 0..(i - 1) : j \notin x /\ j \in y /\ \A k \in (j + 1)..(i - 1) : (k \in x <=> k \in y)

\* a - b for a >= b
Sub(a, b) ==
    CHOOSE r \in {{i \in 0..MaxBit(x \cup y) : (i \in x) # ((i \in y) # Borrow(x, y, i))} :
                     x \in {a}, y \in {b}} : TRUE

\* a - 1 for a > 0
Dec(a) == Sub(a, {0})

RECURSIVE MulFrom(_, _)
MulFrom(a, b) == IF b = {} THEN {}
                 ELSE CHOOSE r \in {Add(Shl(a, i), MulFrom(a, rest)) :
                                       i \in {CHOOSE x \in b : TRUE},
                                       rest \in {b \ {CHOOSE x \in b : TRUE}}} : TRUE

\* a * b: the shifts of the operand with more bits, one per bit of the other, added
Mul(a, b) ==
    CHOOSE r \in {(IF Cardinality(x) < Cardinality(y) THEN MulFrom(y, x) ELSE MulFrom(x, y)) :
                     x \in {a}, y \in {b}} : TRUE

\* the number of trailing zero bits of a positive integer m
TrailingZeros(m) == CHOOSE k \in 0..30 : m % Pow2(k) = 0 /\ (m \div Pow2(k)) % 2 = 1

\* the widest chunk of dividend bits long division by m can take in one step
ChunkBits(m) == CHOOSE k \in 1..20 : Pow2(k) <= 2147483647 \div m
                                     /\ (k = 20 \/ Pow2(k + 1) > 2147483647 \div m)

RECURSIVE DivFrom(_, _, _, _, _)
\* long division of a bit set by an odd m, k bits at a time from chunk j down
DivFrom(S, m, k, j, rem) ==
    IF j < 0 THEN {}
    ELSE CHOOSE r \in {Shl(Bits(cur \div m), j * k) \cup DivFrom(S, m, k, jj, cur % m) :
                          cur \in {rem * Pow2(k) + ToInt(Shr(S \cap ((j * k)..(j * k + k - 1)), j * k))},
                          jj \in {j - 1}} : TRUE

\* S divided by a positive integer m (m <= 10^9), rounded down
DivSmall(S, m) ==
    CHOOSE r \in {DivFrom(x, odd, ChunkBits(odd), MaxBit(x) \div ChunkBits(odd), 0) :
                     x \in {Shr(S, TrailingZeros(m))},
                     odd \in {m \div Pow2(TrailingZeros(m))}} : TRUE

\* a < b on bit sets
LessV(a, b) == \E i \in b : i \notin a /\ \A j \in (a \cup b) : j > i => (j \in a <=> j \in b)

Less(a, b) == \E x \in {a}, y \in {b} : LessV(x, y)

Leq(a, b) == \E x \in {a}, y \in {b} : x = y \/ LessV(x, y)

(* ------------------------------------------------------------------ *)
(* Python numbers as exact rationals: (+/-) n / (d[1] * d[2] * ...)    *)
(* ------------------------------------------------------------------ *)
Rat(neg, n, d) == [neg |-> neg, n |-> n, d |-> d]

RInt(k) == Rat(FALSE, Bits(k), <<>>)
RNeg(k) == Rat(TRUE, Bits(k), <<>>)
RFrac(p, q) == Rat(FALSE, Bits(p), <<q>>)

RECURSIVE DivSeq(_, _)
DivSeq(S, d) == IF d = <<>> THEN S
                ELSE CHOOSE r \in {DivSeq(q, t) : q \in {DivSmall(S, Head(d))}, t \in {Tail(d)}} : TRUE

RECURSIVE ProdBits(_)
ProdBits(d) == IF d = <<>> THEN {0} ELSE Mul(ProdBits(Tail(d)), Bits(Head(d)))

\* the magnitude rounded toward zero: int(x)
Floor(r) == CHOOSE q \in {DivSeq(x.n, x.d) : x \in {r}} : TRUE

IsWhole(r) == \E x \in {r} : Mul(Floor(x), ProdBits(x.d)) = x.n

IsZero(r) == r.n = {}

IsNegative(r) == \E x \in {r} : x.neg /\ x.n # {}

\* the magnitude rounded to nearest, halves away from zero: round(x)
Round(r) ==
    CHOOSE q \in {DivSeq(DivSmall(Add(Shl(x.n, 1), ProdBits(x.d)), 2), x.d) : x \in {r}} : TRUE

\* a / b for b # 0 with a small numerator
RDiv(a, b) ==
    CHOOSE q \in {Rat(x.neg # y.neg, Mul(x.n, ProdBits(y.d)), x.d \o <<ToInt(y.n)>>) :
                     x \in {a}, y \in {b}} : TRUE

\* a + b for non-negative a, b
RAdd(a, b) ==
    CHOOSE q \in {Rat(FALSE, Add(Mul(x.n, ProdBits(y.d)), Mul(y.n, ProdBits(x.d))), x.d \o y.d) :
                     x \in {a}, y \in {b}} : TRUE

\* a - b for non-negative a, b
RSub(a, b) ==
    CHOOSE q \in {(IF Less(u, v) THEN Rat(TRUE, Sub(v, u), dd) ELSE Rat(FALSE, Sub(u, v), dd)) :
                     u \in {Mul(a.n, ProdBits(b.d))}, v \in {Mul(b.n, ProdBits(a.d))},
                     dd \in {a.d \o b.d}} : TRUE

\* x * y for non-negative x, y
RMul(a, b) ==
    CHOOSE q \in {Rat(FALSE, Mul(x.n, y.n), x.d \o y.d) : x \in {a}, y \in {b}} : TRUE

\* a < b for non-negative a, b
RLess(a, b) == \E x \in {a}, y \in {b} : Less(Mul(x.n, ProdBits(y.d)), Mul(y.n, ProdBits(x.d)))

(* ------------------------------------------------------------------ *)
(* Register addresses, enumerations and scale factors                  *)
(* ------------------------------------------------------------------ *)
REG_SG_WAVEFORMS == 96
REG_SG_MODSOURCE == 123
REG_SG_PRECLIP == 124

REG_SG_FREQ1_L == 97
REG_SG_FREQ1_H == 105
REG_SG_PHASE1 == 98
REG_SG_AMP1 == 99
REG_SG_MODF1_L == 100
REG_SG_MODF1_H == 101
REG_SG_T01 == 102
REG_SG_T11 == 103
REG_SG_T21 == 104
REG_SG_RISERATE1_L == 106
REG_SG_FALLRATE1_L == 107
REG_SG_RFRATE1_H == 108
REG_SG_MODA1 == 121

REG_SG_FREQ2_L == 109
REG_SG_FREQ2_H == 117
REG_SG_PHASE2 == 110
REG_SG_AMP2 == 111
REG_SG_MODF2_L == 112
REG_SG_MODF2_H == 113
REG_SG_T02 == 114
REG_SG_T12 == 115
REG_SG_T22 == 116
REG_SG_RISERATE2_L == 118
REG_SG_FALLRATE2_L == 119
REG_SG_RFRATE2_H == 120
REG_SG_MODA2 == 122

SG_WAVE_SINE == 0
SG_WAVE_SQUARE == 1
SG_WAVE_NOISE == 2
SG_WAVE_CLIPSINE == 3

SG_MOD_NONE == 0
SG_MOD_AMPL == 1
SG_MOD_FREQ == 2
SG_MOD_PHASE == 4

SG_MODSOURCE_INT == 0
SG_MODSOURCE_ADC == 1
SG_MODSOURCE_DAC == 2

\* a scale factor n / dn, both as bit sets
Scale(n, dn) == [n |-> n, dn |-> dn]

\* 1e9 / 2**48
SG_FREQSCALE == Scale(Bits(1000000000), {48})
\* 1.0 / (2**32 - 1)
SG_PHASESCALE == Scale({0}, 0..31)
\* 1.0 / 2**48
SG_RISESCALE == Scale({0}, {48})
\* 4.0 / 2**16
SG_AMPSCALE == Scale({2}, {16})
\* 1.0 / 2**15
SG_DEPTHSCALE == Scale({0}, {15})

\* x / scale
RDivScale(x, sc) ==
    CHOOSE q \in {Rat(v.neg, Mul(v.n, sc.dn), v.d \o <<ToInt(sc.n)>>) : v \in {x}} : TRUE

\* hexadecimal masks of the field table
M_0000FFFF == 0..15
M_FFFF0000 == 16..31
M_FFFFFFFF == 0..31
M_00FF0000 == 16..23
M_FF000000 == 24..31

(* ------------------------------------------------------------------ *)
(* _instrument._usgn and _instrument._sgn                              *)
(* ------------------------------------------------------------------ *)
\* _usgn(i, width): i rounded, as an unsigned of the width; negative values and
\* values that do not fit are out of range
UsgnOk(x, w) == \E v \in {x} : ~IsNegative(v) /\ Round(v) \subseteq 0..(w - 1)

Usgn(x, w) == Round(x)

\* _sgn(i, width): the two's complement of i rounded, in the width
SgnOk(x, w) == \E v \in {x} : \E r \in {Round(v)} :
                   IF v.neg /\ r # {} THEN Leq(r, {w - 1}) ELSE r \subseteq 0..(w - 2)

Sgn(x, w) == CHOOSE u \in {(IF v.neg /\ r # {} THEN (0..(w - 1)) \ Dec(r) ELSE r) :
                              v \in {x}, r \in {Round(x)}} : TRUE

(* ------------------------------------------------------------------ *)
(* _siggen_reg_hdl: the field table                                    *)
(* ------------------------------------------------------------------ *)
Fields == << "out1_enable", "out2_enable", "out1_waveform", "out2_waveform",
             "out1_modulation", "out2_modulation", "out1_frequency", "out2_frequency",
             "out1_offset", "out2_offset", "out1_phase", "out2_phase",
             "out1_amplitude", "out2_amplitude", "mod1_frequency", "mod2_frequency",
             "mod1_offset", "mod2_offset", "out1_t0", "out1_t1", "out1_t2",
             "out2_t0", "out2_t1", "out2_t2", "out1_riserate", "out1_fallrate",
             "out2_riserate", "out2_fallrate", "mod1_amplitude", "mod2_amplitude",
             "out1_modsource", "out2_modsource", "out1_amp_pc", "out2_amp_pc" >>

FieldNames == {Fields[i] : i \in 1..Len(Fields)}

\* the register, or the (high, low) pair of registers, of a field
FieldRegs(f) ==
    CASE f \in {"out1_enable", "out2_enable", "out1_waveform", "out2_waveform",
                "out1_modulation", "out2_modulation"} -> <<REG_SG_WAVEFORMS>>
      [] f = "out1_frequency" -> <<REG_SG_FREQ1_H, REG_SG_FREQ1_L>>
      [] f = "out2_frequency" -> <<REG_SG_FREQ2_H, REG_SG_FREQ2_L>>
      [] f = "out1_offset"    -> <<REG_SG_MODF1_H>>
      [] f = "out2_offset"    -> <<REG_SG_MODF2_H>>
      [] f = "out1_phase"     -> <<REG_SG_PHASE1>>
      [] f = "out2_phase"     -> <<REG_SG_PHASE2>>
      [] f = "out1_amplitude" -> <<REG_SG_AMP1>>
      [] f = "out2_amplitude" -> <<REG_SG_AMP2>>
      [] f = "mod1_frequency" -> <<REG_SG_MODF1_H, REG_SG_MODF1_L>>
      [] f = "mod2_frequency" -> <<REG_SG_MODF2_H, REG_SG_MODF2_L>>
      [] f = "mod1_offset"    -> <<REG_SG_MODF1_H>>
      [] f = "mod2_offset"    -> <<REG_SG_MODF2_H>>
      [] f = "out1_t0"        -> <<REG_SG_T01>>
      [] f = "out1_t1"        -> <<REG_SG_T11>>
      [] f = "out1_t2"        -> <<REG_SG_T21>>
      [] f = "out2_t0"        -> <<REG_SG_T02>>
      [] f = "out2_t1"        -> <<REG_SG_T12>>
      [] f = "out2_t2"        -> <<REG_SG_T22>>
      [] f = "out1_riserate"  -> <<REG_SG_RFRATE1_H, REG_SG_RISERATE1_L>>
      [] f = "out1_fallrate"  -> <<REG_SG_RFRATE1_H, REG_SG_FALLRATE1_L>>
      [] f = "out2_riserate"  -> <<REG_SG_RFRATE2_H, REG_SG_RISERATE2_L>>
      [] f = "out2_fallrate"  -> <<REG_SG_RFRATE2_H, REG_SG_FALLRATE2_L>>
      [] f = "mod1_amplitude" -> <<REG_SG_MODA1>>
      [] f = "mod2_amplitude" -> <<REG_SG_MODA2>>
      [] f \in {"out1_modsource", "out2_modsource"} -> <<REG_SG_MODSOURCE>>
      [] f \in {"out1_amp_pc", "out2_amp_pc"} -> <<REG_SG_PRECLIP>>

IsPair(f) == Len(FieldRegs(f)) = 2

RegSet(f) == {FieldRegs(f)[i] : i \in 1..Len(FieldRegs(f))}

Registers == UNION {RegSet(f) : f \in FieldNames}

\* outcome of an encoder: the new word(s), the lambda's None, or the exception raised
EncOk(w) == [exc |-> "ok", new |-> <<w>>]
EncOk2(hi, lo) == [exc |-> "ok", new |-> <<hi, lo>>]
EncNone == [exc |-> "None", new |-> <<>>]
EncExc(e) == [exc |-> e, new |-> <<>>]

\* int(s) in L, for a list L of non-negative integers
IntIn(s, L) == IsSmall(Floor(s)) /\ (IsNegative(s) => Floor(s) = {}) /\ ToInt(Floor(s)) \in L

\* s in L, for a list L of non-negative integers
MemberOf(s, L) == IsWhole(s) /\ ~IsNegative(s) /\ IsSmall(s.n) /\ ToInt(Floor(s)) \in L

\* range(a, b)
PyRange(a, b) == a..(b - 1)

\* a | b on small integers
IntOr(a, b) == ToInt(Or(Bits(a), Bits(b)))

EncEnable(s, old, bit) ==
    IF IntIn(s, {0, 1}) THEN EncOk(Or(AndNot(old, Bits(Pow2(bit))), Shl(Floor(s), bit)))
    ELSE EncNone

\* the call _usgn(x, w) or _sgn(x, w) inside a set-transform: <<value>>, or <<>> when
\* it raises ValueOutOfRangeException
UsgnTry(x, w) == IF UsgnOk(x, w) THEN <<Usgn(x, w)>> ELSE <<>>

SgnTry(x, w) == IF SgnOk(x, w) THEN <<Sgn(x, w)>> ELSE <<>>

\* (keep | (u >> 32) << shift, u & 0xFFFFFFFF): the pair a 48-bit set-transform returns
Enc48(u, keep, shift) ==
    IF u = <<>> THEN EncExc("ValueOutOfRange")
    ELSE EncOk2(Or(keep, Shl(Shr(u[1], 32), shift)), And(u[1], M_FFFFFFFF))

\* keep | u << shift: the word a one-register numeric set-transform returns
EncWord(u, keep, shift) ==
    IF u = <<>> THEN EncExc("ValueOutOfRange") ELSE EncOk(Or(keep, Shl(u[1], shift)))

Waveforms == {SG_WAVE_SINE, SG_WAVE_SQUARE, SG_WAVE_NOISE, SG_WAVE_CLIPSINE}

ModRange == PyRange(SG_MOD_NONE, IntOr(IntOr(SG_MOD_AMPL, SG_MOD_FREQ), SG_MOD_PHASE))

ModSources == {SG_MODSOURCE_INT, SG_MODSOURCE_ADC, SG_MODSOURCE_DAC}

\* the set-transform of field f applied to value s and the current word(s) old;
\* old is a word for a one-register field and a <<high, low>> pair otherwise
Encode(f, s, old) ==
    CASE f = "out1_enable" -> EncEnable(s, old, 0)
      [] f = "out2_enable" -> EncEnable(s, old, 1)
      [] f = "out1_waveform" ->
            IF MemberOf(s, Waveforms) THEN EncOk(Or(AndNot(old, Bits(112)), Shl(Floor(s), 4)))
            ELSE EncNone
      [] f = "out2_waveform" ->
            IF MemberOf(s, Waveforms) THEN EncOk(Or(AndNot(old, Bits(896)), Shl(Floor(s), 7)))
            ELSE EncNone
      [] f = "out1_modulation" ->
            IF MemberOf(s, ModRange) THEN EncOk(Or(AndNot(old, M_00FF0000), Shl(Floor(s), 16)))
            ELSE EncNone
      [] f = "out2_modulation" ->
            IF MemberOf(s, ModRange) THEN EncOk(Or(AndNot(old, M_FF000000), Shl(Floor(s), 24)))
            ELSE EncNone
      [] f \in {"out1_frequency", "out2_frequency"} ->
            Enc48(UsgnTry(RDivScale(s, SG_FREQSCALE), 48), And(old[1], M_FFFF0000), 0)
      [] f \in {"out1_offset", "out2_offset"} ->
            EncWord(SgnTry(RDivScale(s, SG_AMPSCALE), 16), AndNot(old, M_0000FFFF), 0)
      [] f \in {"out1_phase", "out2_phase"} ->
            EncWord(UsgnTry(RDivScale(s, SG_PHASESCALE), 32), {}, 0)
      [] f \in {"out1_amplitude", "out2_amplitude"} ->
            EncWord(UsgnTry(RDivScale(s, SG_AMPSCALE), 32), {}, 0)
      [] f \in {"mod1_frequency", "mod2_frequency"} ->
            \* old & 0xFFFF0000 with old the list of the two current words
            EncExc("TypeError")
      [] f \in {"mod1_offset", "mod2_offset"} ->
            EncWord(SgnTry(s, 16), And(old, M_0000FFFF), 16)
      [] f \in {"out1_t0", "out1_t1", "out1_t2", "out2_t0", "out2_t1", "out2_t2"} ->
            EncWord(UsgnTry(RDivScale(s, SG_PHASESCALE), 32), {}, 0)
      [] f = "out1_riserate" ->
            Enc48(UsgnTry(RDivScale(s, SG_FREQSCALE), 48), And(old[1], M_FFFF0000), 0)
      [] f = "out1_fallrate" ->
            Enc48(UsgnTry(RDivScale(s, SG_FREQSCALE), 48), And(old[1], M_0000FFFF), 16)
      [] f = "out2_riserate" ->
            Enc48(UsgnTry(RDivScale(s, SG_RISESCALE), 48), And(old[1], M_FFFF0000), 0)
      [] f = "out2_fallrate" ->
            Enc48(UsgnTry(RDivScale(s, SG_RISESCALE), 48), And(old[1], M_0000FFFF), 16)
      [] f \in {"mod1_amplitude", "mod2_amplitude"} ->
            EncWord(UsgnTry(RDivScale(s, SG_DEPTHSCALE), 15), {}, 0)
      [] f = "out1_modsource" ->
            IF MemberOf(s, ModSources) THEN EncOk(Or(AndNot(old, Bits(6)), Shl(Floor(s), 1)))
            ELSE EncNone
      [] f = "out2_modsource" ->
            IF MemberOf(s, ModSources) THEN EncOk(Or(And(old, Bits(24)), Shl(Floor(s), 3)))
            ELSE EncNone
      [] f = "out1_amp_pc" ->
            IF IsZero(s) THEN EncExc("ZeroDivisionError")
            ELSE EncWord(UsgnTry(RDiv(RInt(1), s), 16), And(old, M_FFFF0000), 0)
      [] f = "out2_amp_pc" ->
            IF IsZero(s) THEN EncExc("ZeroDivisionError")
            ELSE EncWord(UsgnTry(RDiv(RInt(1), s), 16), And(old, M_0000FFFF), 16)

\* outcome of a decoder: a plain integer, scale * raw, scale / raw, or an exception
ScaleOne == Scale({0}, {0})
DecInt(raw) == [k |-> "int", sc |-> ScaleOne, raw |-> raw, exc |-> "ok"]
DecMul(sc, raw) == [k |-> "mul", sc |-> sc, raw |-> raw, exc |-> "ok"]
DecDiv(sc, raw) == IF raw = {} THEN [k |-> "exc", sc |-> ScaleOne, raw |-> {}, exc |-> "ZeroDivisionError"]
                   ELSE [k |-> "div", sc |-> sc, raw |-> raw, exc |-> "ok"]
DecExc(e) == [k |-> "exc", sc |-> ScaleOne, raw |-> {}, exc |-> e]

\* the get-transform of field f applied to the word(s) rval
Decode(f, rval) ==
    CASE f = "out1_enable" -> DecInt(And(rval, Bits(1)))
      [] f = "out2_enable" -> DecInt(And(rval, Shr(Bits(2), 1)))
      [] f = "out1_waveform" -> DecInt(And(rval, Shr(Bits(112), 4)))
      [] f = "out2_waveform" -> DecInt(And(rval, Shr(Bits(896), 7)))
      [] f = "out1_modulation" -> DecInt(And(rval, Shr(M_00FF0000, 16)))
      [] f = "out2_modulation" -> DecInt(And(rval, Shr(M_FF000000, 24)))
      [] f \in {"out1_frequency", "out2_frequency"} ->
            DecMul(SG_FREQSCALE, Or(Shl(rval[1], 32), rval[2]))
      [] f \in {"out1_offset", "out2_offset"} -> DecMul(SG_AMPSCALE, And(rval, M_0000FFFF))
      [] f \in {"out1_phase", "out2_phase"} -> DecMul(SG_PHASESCALE, rval)
      [] f \in {"out1_amplitude", "out2_amplitude"} -> DecMul(SG_AMPSCALE, rval)
      [] f \in {"mod1_frequency", "mod2_frequency"} ->
            DecMul(SG_FREQSCALE, Or(Shl(rval[1], 32), rval[2]))
      [] f \in {"mod1_offset", "mod2_offset"} -> DecInt(Shr(rval, 16))
      [] f \in {"out1_t0", "out1_t1", "out1_t2", "out2_t0", "out2_t1", "out2_t2"} ->
            DecMul(SG_PHASESCALE, rval)
      [] f = "out1_riserate" ->
            DecDiv(SG_FREQSCALE, Or(And(rval[1], Shl(M_0000FFFF, 32)), rval[2]))
      [] f = "out1_fallrate" ->
            DecDiv(SG_FREQSCALE, Or(And(rval[1], Shl(M_FFFF0000, 16)), rval[2]))
      [] f = "out2_riserate" ->
            DecMul(SG_RISESCALE, Or(And(rval[1], Shl(M_0000FFFF, 32)), rval[2]))
      [] f = "out2_fallrate" ->
            DecMul(SG_RISESCALE, Or(And(rval[1], Shl(M_FFFF0000, 16)), rval[2]))
      [] f \in {"mod1_amplitude", "mod2_amplitude"} -> DecInt(rval)
      [] f = "out1_modsource" -> DecInt(And(rval, Shr(Bits(6), 1)))
      [] f = "out2_modsource" -> DecInt(And(rval, Shr(Bits(24), 3)))
      [] f = "out1_amp_pc" ->
            \* rval & (0x0000FFFF * _SG_AMPSCALE): an int and a float
            DecExc("TypeError")
      [] f = "out2_amp_pc" ->
            \* rval >> (16 * _SG_AMPSCALE): an int and a float
            DecExc("TypeError")

(* ------------------------------------------------------------------ *)
(* Attribute access through the field table (_attach_register_handlers) *)
(* ------------------------------------------------------------------ *)
\* the current word(s) of a field, as its transforms receive them
ReadRegs(f, regs) == IF IsPair(f) THEN <<regs[FieldRegs(f)[1]], regs[FieldRegs(f)[2]]>>
                     ELSE regs[FieldRegs(f)[1]]

\* the register file with the word(s) a set-transform returned stored
WriteRegs(f, regs, new) ==
    [r \in DOMAIN regs |->
        IF r = FieldRegs(f)[1] THEN new[1]
        ELSE IF IsPair(f) /\ r = FieldRegs(f)[2] THEN new[2]
        ELSE regs[r]]

ZeroRegs == [r \in Registers |-> {}]

(* ------------------------------------------------------------------ *)
(* State                                                               *)
(* ------------------------------------------------------------------ *)
VARIABLES
    cf,         \* codec: the field being written
    cv,         \* codec: the value written
    cold,       \* codec: the register file before the write
    cnew,       \* codec: the register file after the write
    cexc,       \* codec: outcome of the set-transform
    cdec,       \* codec: what the get-transform returns afterwards
    cpc,        \* codec: "in", "enc" or "dec"
    dev,        \* instrument: the register file on the device (last commit)
    pending,    \* instrument: the local register image the setters write
    staged,     \* instrument: attribute name -> <<value>> when set since the last commit
    call,       \* instrument: the last helper called, its arguments and its outcome
    preStaged,  \* instrument: staged as it was when the last helper was called
    prePending, \* instrument: pending as it was when the last helper was called
    pc,         \* instrument: position of the calling script
    session,    \* datalogger: the session record
    lop,        \* datalogger: the last operation called and its result
    lprev       \* datalogger: the session and the operation before the last operation

codecVars == <<cf, cv, cold, cnew, cexc, cdec, cpc>>
synthVars == <<dev, pending, staged, call, preStaged, prePending, pc>>
logVars == <<session, lop, lprev>>
vars == <<codecVars, synthVars, logVars>>

NoCall == [op |-> "none", ch |-> 0, exc |-> "ok", amplitude |-> RInt(0), frequency |-> RInt(0),
           clip |-> <<>>, duty |-> RInt(0), risetime |-> RInt(0), falltime |-> RInt(0),
           symmetry |-> RInt(0)]

NoStaged == [f \in FieldNames |-> <<>>]

\* a session: its state, the start parameters, the progress counters and the error
IdleSession == [state |-> "Idle", start_offset |-> 0, duration |-> 0, filetype |-> "net",
                samples_captured |-> 0, elapsed_since_start |-> 0, remaining_to_end |-> 0,
                last_error |-> "none", pending_chunks |-> 0, next_index |-> 0]

LogIdle ==
    /\ session = IdleSession
    /\ lop = [op |-> "none", result |-> "ok"]
    /\ lprev = [session |-> IdleSession, op |-> "none", restarted |-> FALSE]

SynthIdle ==
    /\ dev = ZeroRegs /\ pending = ZeroRegs /\ staged = NoStaged /\ call = NoCall
    /\ preStaged = NoStaged /\ prePending = ZeroRegs /\ pc = "off"

CodecIdle ==
    /\ cf = "out1_enable" /\ cv = RInt(0) /\ cold = ZeroRegs /\ cnew = ZeroRegs
    /\ cexc = "ok" /\ cdec = DecInt({}) /\ cpc = "off"

(* ------------------------------------------------------------------ *)
(* The field transforms on their own                                   *)
(* ------------------------------------------------------------------ *)
MaxEnum == 8

\* values written in the codec runs
InVals == {RInt(k) : k \in 0..MaxEnum}
          \cup {RNeg(1), RFrac(1, 2), RFrac(1, 4), Rat(TRUE, {0}, <<2>>),
                RInt(1000), RInt(1000000), RInt(1000000000)}

\* prior register contents in the codec runs
OldWords == {{}, 0..31, {0, 3, 5, 17, 20}}

\* the fields that share a register with f, f included
Sharing(f) == {g \in FieldNames : RegSet(g) \cap RegSet(f) # {}}

SharedRegs(f) == UNION {RegSet(g) : g \in Sharing(f)}

CodecInit ==
    /\ cf \in FieldNames
    /\ cv \in InVals
    /\ \E g \in [SharedRegs(cf) -> OldWords] :
          cold = [r \in Registers |-> IF r \in SharedRegs(cf) THEN g[r] ELSE {}]
    /\ cnew = cold
    /\ cexc = "ok"
    /\ cdec = DecInt({})
    /\ cpc = "in"
    /\ SynthIdle
    /\ LogIdle

\* attribute assignment: the set-transform on the current word(s), stored when it succeeds
CodecEncode ==
    /\ cpc = "in"
    /\ \E e \in {Encode(cf, cv, ReadRegs(cf, cold))} :
          /\ cexc' = e.exc
          /\ cnew' = IF e.exc = "ok" THEN WriteRegs(cf, cold, e.new) ELSE cold
    /\ cpc' = "enc"
    /\ UNCHANGED <<cf, cv, cold, cdec, synthVars, logVars>>

\* attribute read: the get-transform on the stored word(s)
CodecDecode ==
    /\ cpc = "enc"
    /\ cdec' = Decode(cf, ReadRegs(cf, cnew))
    /\ cpc' = "dec"
    /\ UNCHANGED <<cf, cv, cold, cnew, cexc, synthVars, logVars>>

CodecNext == CodecEncode \/ CodecDecode

CodecSpec == CodecInit /\ [][CodecNext]_vars

(* ------------------------------------------------------------------ *)
(* Properties of the field transforms                                  *)
(* ------------------------------------------------------------------ *)
EnumFields == {"out1_enable", "out2_enable", "out1_waveform", "out2_waveform",
               "out1_modulation", "out2_modulation", "out1_modsource", "out2_modsource"}

SignedFields == {"out1_offset", "out2_offset", "mod1_offset", "mod2_offset"}

Wide48 == {"out1_frequency", "out2_frequency", "mod1_frequency", "mod2_frequency",
           "out1_riserate", "out2_riserate", "out1_fallrate", "out2_fallrate"}

ModTypes == {SG_MOD_NONE, SG_MOD_AMPL, SG_MOD_FREQ, SG_MOD_PHASE}

\* the scale factor a field is declared with
FieldScale(f) ==
    CASE f \in {"out1_frequency", "out2_frequency", "mod1_frequency", "mod2_frequency",
                "out1_riserate", "out1_fallrate"} -> SG_FREQSCALE
      [] f \in {"out2_riserate", "out2_fallrate"} -> SG_RISESCALE
      [] f \in {"out1_offset", "out2_offset", "out1_amplitude", "out2_amplitude",
                "out1_amp_pc", "out2_amp_pc"} -> SG_AMPSCALE
      [] f \in {"out1_phase", "out2_phase", "out1_t0", "out1_t1", "out1_t2",
                "out2_t0", "out2_t1", "out2_t2"} -> SG_PHASESCALE
      [] f \in {"mod1_amplitude", "mod2_amplitude"} -> SG_DEPTHSCALE
      [] OTHER -> ScaleOne

\* the bit width a field is declared with
FieldWidth(f) ==
    CASE f \in Wide48 -> 48
      [] f \in {"out1_offset", "out2_offset", "mod1_offset", "mod2_offset",
                "out1_amp_pc", "out2_amp_pc"} -> 16
      [] f \in {"mod1_amplitude", "mod2_amplitude"} -> 15
      [] f \in {"out1_enable", "out2_enable"} -> 1
      [] f \in {"out1_waveform", "out2_waveform"} -> 3
      [] f \in {"out1_modulation", "out2_modulation"} -> 8
      [] f \in {"out1_modsource", "out2_modsource"} -> 2
      [] OTHER -> 32

\* the bit range of an enumerated field in its register
FieldMask(f) ==
    CASE f = "out1_enable" -> {0}
      [] f = "out2_enable" -> {1}
      [] f = "out1_waveform" -> 4..6
      [] f = "out2_waveform" -> 7..9
      [] f = "out1_modulation" -> 16..23
      [] f = "out2_modulation" -> 24..31
      [] f = "out1_modsource" -> 1..2
      [] f = "out2_modsource" -> 3..4

\* the raw value the field's scale gives a value
RawOf(f, v) ==
    IF f \in {"out1_amp_pc", "out2_amp_pc"} THEN RDiv(RInt(1), v)
    ELSE RDivScale(v, FieldScale(f))

\* the documented domain of a field
InDomain(f, v) ==
    CASE f \in {"out1_enable", "out2_enable"} -> MemberOf(v, {0, 1})
      [] f \in {"out1_waveform", "out2_waveform"} -> MemberOf(v, Waveforms)
      [] f \in {"out1_modulation", "out2_modulation"} -> MemberOf(v, ModTypes)
      [] f \in {"out1_modsource", "out2_modsource"} -> MemberOf(v, ModSources)
      [] f \in {"out1_amp_pc", "out2_amp_pc"} ->
            ~IsZero(v) /\ ~IsNegative(v) /\ Round(RawOf(f, v)) \subseteq 0..15
      [] f \in SignedFields ->
            IF IsNegative(v) THEN Leq(Round(RawOf(f, v)), {FieldWidth(f) - 1})
            ELSE Round(RawOf(f, v)) \subseteq 0..(FieldWidth(f) - 2)
      [] OTHER -> ~IsNegative(v) /\ Round(RawOf(f, v)) \subseteq 0..(FieldWidth(f) - 1)

\* the decoded number as numerator and denominator
DecNum(d) == CASE d.k = "int" -> d.raw
               [] d.k = "mul" -> Mul(d.raw, d.sc.n)
               [] d.k = "div" -> d.sc.n
               [] OTHER -> {}
DecDen(d) == CASE d.k = "int" -> {0}
               [] d.k = "mul" -> d.sc.dn
               [] d.k = "div" -> Mul(d.sc.dn, d.raw)
               [] OTHER -> {0}

\* |d - v| <= step, for a decoded (non-negative) number d and a value v
Within(v, d, step) ==
    /\ d.k # "exc"
    /\ LET an == DecNum(d)
           ad == DecDen(d)
           bn == v.n
           bd == ProdBits(v.d)
           x  == Mul(Mul(an, bd), step.dn)
           y  == Mul(Mul(bn, ad), step.dn)
           t  == Mul(step.n, Mul(ad, bd))
       IN  IF IsNegative(v) THEN Leq(Add(x, y), t)
           ELSE Leq(x, Add(y, t)) /\ Leq(y, Add(x, t))

\* zero for the enumerated fields (exact equality), the scale factor otherwise
StepOf(f) == IF f \in EnumFields THEN Scale({}, {0}) ELSE FieldScale(f)

\* C1 (bit isolation): writing an in-domain value to field A leaves the decoded value of
\* every other field B that shares a physical register with A exactly what it was.
C1_BitIsolation ==
    (cpc # "in" /\ InDomain(cf, cv)) =>
        \A b \in Sharing(cf) \ {cf} :
            Decode(b, ReadRegs(b, cnew)) = Decode(b, ReadRegs(b, cold))

\* C2 (round trip): for an in-domain value and any prior register content, the value read
\* back after a write is within one quantization step of the value written (equal for
\* the enumerated fields).
C2_RoundTrip ==
    (cpc = "dec" /\ InDomain(cf, cv)) =>
        cexc = "ok" /\ Within(cv, cdec, StepOf(cf))

\* C6 (domain rejection): a write is accepted only for a value of the field's domain; an
\* enumerated field accepts exactly the members of its enumeration, and an accepted
\* member sets no bit outside the field's bit range.
C6_DomainRejection ==
    (cpc # "in") =>
        /\ (cexc = "ok" => InDomain(cf, cv))
        /\ (cf \in EnumFields /\ InDomain(cf, cv)) =>
              /\ cexc = "ok"
              /\ (cnew[FieldRegs(cf)[1]] \ cold[FieldRegs(cf)[1]]) \subseteq FieldMask(cf)

\* the slot of the high register that holds bits 32..47 of a 48-bit field
HighSlot(f) == IF f \in {"out1_fallrate", "out2_fallrate"} THEN 16..31 ELSE 0..15

HighShift(f) == IF f \in {"out1_fallrate", "out2_fallrate"} THEN 16 ELSE 0

\* C9 (multi-word split): for a 48-bit field, an in-domain value and any prior content,
\* the write stores raw48 = round(value/scale) with bits 0..31 in the low word, bits
\* 32..47 in the field's slot of the high word and the rest of the high word kept, and
\* the read returns scale * raw48.
C9_MultiWordSplit ==
    (cpc = "dec" /\ cf \in Wide48 /\ InDomain(cf, cv)) =>
        LET raw48 == Round(RawOf(cf, cv))
            hi == FieldRegs(cf)[1]
            lo == FieldRegs(cf)[2]
        IN  /\ cexc = "ok"
            /\ cnew[lo] = And(raw48, 0..31)
            /\ cnew[hi] \cap HighSlot(cf) = Shl(Shr(raw48, 32), HighShift(cf))
            /\ cnew[hi] \ HighSlot(cf) = cold[hi] \ HighSlot(cf)
            /\ cdec = DecMul(FieldScale(cf), raw48)

(* ------------------------------------------------------------------ *)
(* SignalGenerator: staging helpers and commit                         *)
(* ------------------------------------------------------------------ *)
\* the interpreter state while a helper runs: the register image, the staged
\* attributes, and the exception that ended the helper ("ok" while none has)
Frame(p, s, e) == [pending |-> p, staged |-> s, exc |-> e]

Raise(st, e) == [st EXCEPT !.exc = e]

\* self.<f> = v: the set-transform on the current word(s); a transform returning None
\* raises ValueOutOfRangeException and nothing is stored
SetAttr(st, f, v) ==
    CHOOSE r \in {(IF e.exc = "ok"
                   THEN Frame(WriteRegs(f, st.pending, e.new), [st.staged EXCEPT ![f] = <<v>>], "ok")
                   ELSE Raise(st, IF e.exc = "None" THEN "ValueOutOfRange" ELSE e.exc)) :
                     e \in {Encode(f, v, ReadRegs(f, st.pending))}} : TRUE

\* one assignment statement of a helper: self.<f> = a, or self.<f> = a / b
Assign(f, a) == [f |-> f, quot |-> FALSE, a |-> a, b |-> a]
AssignQuot(f, a, b) == [f |-> f, quot |-> TRUE, a |-> a, b |-> b]

Stmt(st, x) ==
    IF x.quot /\ IsZero(x.b) THEN Raise(st, "ZeroDivisionError")
    ELSE IF x.quot THEN SetAttr(st, x.f, RDiv(x.a, x.b))
    ELSE SetAttr(st, x.f, x.a)

RECURSIVE Exec(_, _)
\* the statements of a helper in order, up to the first that raises
Exec(st, prog) ==
    IF prog = <<>> \/ st.exc # "ok" THEN st
    ELSE CHOOSE r \in {Exec(n, t) : n \in {Stmt(st, Head(prog))}, t \in {Tail(prog)}} : TRUE

\* the statements of a helper, run on the state st it is entered in
Body(st, prog) == CHOOSE r \in {Exec(n, t) : n \in {st}, t \in {prog}} : TRUE

ChannelField ==
    [enable |-> <<"out1_enable", "out2_enable">>, waveform |-> <<"out1_waveform", "out2_waveform">>,
     amplitude |-> <<"out1_amplitude", "out2_amplitude">>,
     frequency |-> <<"out1_frequency", "out2_frequency">>,
     offset |-> <<"out1_offset", "out2_offset">>, amp_pc |-> <<"out1_amp_pc", "out2_amp_pc">>,
     t0 |-> <<"out1_t0", "out2_t0">>, t1 |-> <<"out1_t1", "out2_t1">>, t2 |-> <<"out1_t2", "out2_t2">>,
     riserate |-> <<"out1_riserate", "out2_riserate">>,
     fallrate |-> <<"out1_fallrate", "out2_fallrate">>]

\* set_defaults: outputs off, amplitudes and frequencies zero
SetDefaults(st) ==
    Body(st, << Assign("out1_enable", RInt(0)),
                Assign("out2_enable", RInt(0)),
                Assign("out1_amplitude", RInt(0)),
                Assign("out2_amplitude", RInt(0)),
                Assign("out1_frequency", RInt(0)),
                Assign("out2_frequency", RInt(0)) >>)

\* synth_sinewave(ch, amplitude, frequency, offset, clip); clip is <<>> for None
SynthSinewave(st, ch, amplitude, frequency, offset, clip) ==
    IF ch \in {1, 2} THEN
        Body(st, << Assign(ChannelField.waveform[ch],
                           IF clip = <<>> THEN RInt(SG_WAVE_SINE) ELSE RInt(SG_WAVE_CLIPSINE)),
                    Assign(ChannelField.enable[ch], RInt(1)),
                    Assign(ChannelField.amplitude[ch], amplitude),
                    Assign(ChannelField.frequency[ch], frequency),
                    Assign(ChannelField.offset[ch], offset),
                    Assign(ChannelField.amp_pc[ch],
                           IF clip = <<>> \/ IsZero(clip[1]) THEN RInt(1) ELSE clip[1]) >>)
    ELSE Raise(st, "ValueOutOfRange: Invalid Channel")

\* the check with its second branch lost
SquareCheckRiseOnly(duty, risetime, falltime) ==
    IF RLess(duty, risetime) THEN "ValueOutOfRange: Duty too small for given rise rate"
    ELSE "ok"

\* the cross-field check that opens synth_squarewave
SquareCheck(duty, risetime, falltime) ==
    IF RLess(duty, risetime) THEN "ValueOutOfRange: Duty too small for given rise rate"
    ELSE IF RLess(RInt(1), RAdd(duty, falltime)) THEN "ValueOutOfRange: Duty and fall time too big"
    ELSE "ok"

\* synth_squarewave(ch, amplitude, frequency, offset, duty, risetime, falltime)
SynthSquarewave(st, ch, amplitude, frequency, offset, duty, risetime, falltime) ==
    IF SquareCheck(duty, risetime, falltime) # "ok"
    THEN Raise(st, SquareCheck(duty, risetime, falltime))
    ELSE IF ch \in {1, 2} THEN
        Body(st, << Assign(ChannelField.waveform[ch], RInt(SG_WAVE_SQUARE)),
                    Assign(ChannelField.enable[ch], RInt(1)),
                    Assign(ChannelField.amplitude[ch], amplitude),
                    Assign(ChannelField.frequency[ch], frequency),
                    Assign(ChannelField.offset[ch], offset),
                    Assign(ChannelField.t0[ch], risetime),
                    Assign(ChannelField.t1[ch], duty),
                    Assign(ChannelField.t2[ch], RAdd(duty, falltime)),
                    AssignQuot(ChannelField.riserate[ch], frequency, risetime),
                    AssignQuot(ChannelField.fallrate[ch], frequency, falltime) >>)
    ELSE Raise(st, "ValueOutOfRange: Invalid Channel")

\* synth_rampwave(ch, amplitude, frequency, offset, symmetry)
SynthRampwave(st, ch, amplitude, frequency, offset, symmetry) ==
    SynthSquarewave(st, ch, amplitude, frequency, offset,
                    symmetry, symmetry, RSub(RInt(1), symmetry))

\* the attribute read self.<f>, as a number
GetAttr(f, regs) ==
    CHOOSE q \in {Rat(FALSE, Mul(d.raw, d.sc.n), <<ToInt(d.sc.dn)>>) :
                     d \in {Decode(f, ReadRegs(f, regs))}} : TRUE

\* synth_modulate(ch, type, source, depth, frequency)
SynthModulate(st, ch, type, source, depth, frequency) ==
    IF ch = 1 THEN
        CHOOSE r \in {(IF n.exc # "ok" THEN n
                       ELSE SetAttr(n, "mod1_amplitude",
                                    RMul(depth, GetAttr("out1_amplitude", n.pending)))) :
                         n \in {Body(st, << Assign("out1_modulation", type),
                                            Assign("out1_modsource", source),
                                            Assign("mod1_frequency", frequency) >>)}} : TRUE
    ELSE st

(* ------------------------------------------------------------------ *)
(* A script driving the instrument, after examples/basic_siggen.py:    *)
(* set_defaults, a helper call, commit                                 *)
(* ------------------------------------------------------------------ *)
MaxCh == 3
GridDen == 4

Channels == 0..MaxCh
Amps == {RInt(1)}
Freqs == {RInt(1000), RInt(1000000)}
Offsets == {RInt(0)}
Clips == {<<>>, <<RFrac(1, 2)>>}
TimeGrid == {RFrac(k, GridDen) : k \in 0..GridDen}
Depths == {RFrac(1, 2)}

\* register contents found on the device when the script attaches
PriorDevs == {ZeroRegs, [r \in Registers |-> 0..31]}

SynthInit ==
    /\ dev \in PriorDevs
    /\ pending = dev
    /\ staged = NoStaged
    /\ call = NoCall
    /\ preStaged = NoStaged
    /\ prePending = dev
    /\ pc = "defaults"
    /\ CodecIdle
    /\ LogIdle

NextPc == [defaults |-> "helper", helper |-> "commit"]

\* the state after a helper returned or raised
Ran(st, c) ==
    /\ pending' = st.pending
    /\ staged' = st.staged
    /\ call' = [c EXCEPT !.exc = st.exc]
    /\ preStaged' = staged
    /\ prePending' = pending
    /\ pc' = NextPc[pc]
    /\ UNCHANGED <<dev, codecVars, logVars>>

Entry == Frame(pending, staged, "ok")

CallSetDefaults ==
    /\ pc = "defaults"
    /\ \E st \in {SetDefaults(Entry)} : Ran(st, [NoCall EXCEPT !.op = "set_defaults"])

CallSinewave ==
    /\ pc = "helper"
    /\ \E ch \in Channels, a \in Amps, f \in Freqs, o \in Offsets, clip \in Clips :
          \E st \in {SynthSinewave(Entry, ch, a, f, o, clip)} : Ran(st,
              [NoCall EXCEPT !.op = "synth_sinewave", !.ch = ch, !.amplitude = a,
                             !.frequency = f, !.clip = clip])

CallSquarewave ==
    /\ pc = "helper"
    /\ \E ch \in Channels, a \in Amps, f \in Freqs, o \in Offsets,
          duty \in TimeGrid, risetime \in TimeGrid, falltime \in TimeGrid :
          \E st \in {SynthSquarewave(Entry, ch, a, f, o, duty, risetime, falltime)} : Ran(st,
              [NoCall EXCEPT !.op = "synth_squarewave", !.ch = ch, !.amplitude = a,
                             !.frequency = f, !.duty = duty, !.risetime = risetime,
                             !.falltime = falltime])

CallRampwave ==
    /\ pc = "helper"
    /\ \E ch \in Channels, a \in Amps, f \in Freqs, o \in Offsets, symmetry \in TimeGrid :
          \E st \in {SynthRampwave(Entry, ch, a, f, o, symmetry)} : Ran(st,
              [NoCall EXCEPT !.op = "synth_rampwave", !.ch = ch, !.amplitude = a,
                             !.frequency = f, !.symmetry = symmetry])

CallModulate ==
    /\ pc = "helper"
    /\ \E ch \in Channels, type \in {SG_MOD_NONE, SG_MOD_AMPL}, depth \in Depths, f \in Freqs :
          \E st \in {SynthModulate(Entry, ch, RInt(type), RInt(SG_MODSOURCE_INT), depth, f)} : Ran(st,
              [NoCall EXCEPT !.op = "synth_modulate", !.ch = ch, !.frequency = f])

\* commit(): the staged registers are written in one batch and become the baseline
CommitOk ==
    /\ pc = "commit"
    /\ dev' = pending
    /\ staged' = NoStaged
    /\ pc' = "committed"
    /\ UNCHANGED <<pending, call, preStaged, prePending, codecVars, logVars>>

\* commit() when the device read or write fails: nothing is committed, the staged
\* values stay for a retry
CommitFail ==
    /\ pc = "commit"
    /\ pc' = "failed"
    /\ UNCHANGED <<dev, pending, staged, call, preStaged, prePending, codecVars, logVars>>

CommitRetry ==
    /\ pc = "failed"
    /\ pc' = "commit"
    /\ UNCHANGED <<dev, pending, staged, call, preStaged, prePending, codecVars, logVars>>

SynthNext ==
    \/ CallSetDefaults
    \/ CallSinewave
    \/ CallSquarewave
    \/ CallRampwave
    \/ CallModulate
    \/ CommitOk
    \/ CommitFail
    \/ CommitRetry

SynthSpec == SynthInit /\ [][SynthNext]_vars

(* ------------------------------------------------------------------ *)
(* Properties of the staging helpers                                   *)
(* ------------------------------------------------------------------ *)
InvalidChannel == "ValueOutOfRange: Invalid Channel"

SquareErrors == {"ValueOutOfRange: Duty too small for given rise rate",
                 "ValueOutOfRange: Duty and fall time too big"}

Untouched == staged = preStaged /\ pending = prePending

AfterHelper(ops) == pc = "commit" /\ call.op \in ops

SineFields(ch) == {ChannelField.waveform[ch], ChannelField.enable[ch], ChannelField.amplitude[ch],
                   ChannelField.frequency[ch], ChannelField.offset[ch], ChannelField.amp_pc[ch]}

SquareFields(ch) == {ChannelField.waveform[ch], ChannelField.enable[ch], ChannelField.amplitude[ch],
                     ChannelField.frequency[ch], ChannelField.offset[ch], ChannelField.t0[ch],
                     ChannelField.t1[ch], ChannelField.t2[ch], ChannelField.riserate[ch],
                     ChannelField.fallrate[ch]}

\* every attribute name that belongs to a channel
OfChannel(ch) == IF ch = 1
                 THEN {f \in FieldNames : f \in SquareFields(1) \cup SineFields(1)
                                          \/ f \in {"out1_modulation", "out1_modsource", "out1_phase",
                                                    "mod1_frequency", "mod1_amplitude", "mod1_offset"}}
                 ELSE {f \in FieldNames : f \in SquareFields(2) \cup SineFields(2)
                                          \/ f \in {"out2_modulation", "out2_modsource", "out2_phase",
                                                    "mod2_frequency", "mod2_amplitude", "mod2_offset"}}

REq(a, b) == ~RLess(a, b) /\ ~RLess(b, a)

\* C3 (sine then commit): after synth_sinewave(1, amplitude, frequency) without clip and a
\* successful commit, the committed registers decode to waveform sine, output 1 enabled,
\* and the amplitude and frequency given, within one quantization step.
C3_SineCommitted ==
    (pc = "committed" /\ call.op = "synth_sinewave" /\ call.ch = 1 /\ call.clip = <<>>
        /\ call.exc = "ok") =>
        /\ Decode("out1_waveform", ReadRegs("out1_waveform", dev)) = DecInt(Bits(SG_WAVE_SINE))
        /\ Decode("out1_enable", ReadRegs("out1_enable", dev)) = DecInt(Bits(1))
        /\ Within(call.amplitude, Decode("out1_amplitude", ReadRegs("out1_amplitude", dev)), SG_AMPSCALE)
        /\ Within(call.frequency, Decode("out1_frequency", ReadRegs("out1_frequency", dev)), SG_FREQSCALE)

BadSquare == RLess(call.duty, call.risetime) \/ RLess(RInt(1), RAdd(call.duty, call.falltime))

\* C4 (square wave cross-field validation): a synth_squarewave call with risetime > duty
\* or duty + falltime > 1 raises the out-of-range error, whatever the channel, and leaves
\* every staged attribute and register as it was before the call.
C4_SquareValidation ==
    (AfterHelper({"synth_squarewave"}) /\ BadSquare) => call.exc \in SquareErrors /\ Untouched

\* a rejected square wave call on a valid channel, made with attributes already staged
C4_Witness ==
    /\ AfterHelper({"synth_squarewave"}) /\ call.ch \in {1, 2}
    /\ ~RLess(call.duty, call.risetime) /\ RLess(RInt(1), RAdd(call.duty, call.falltime))
    /\ call.exc = "ValueOutOfRange: Duty and fall time too big"
    /\ staged # NoStaged /\ Untouched

\* C5 (channel validation): every helper called with a channel outside {1, 2} raises the
\* invalid-channel error and stages nothing; with a channel in {1, 2} it does not raise
\* it and, when it returns, it has staged fields of that channel. (Calls whose other
\* arguments fail the square wave cross-field check are left out.)
C5_ChannelValidation ==
    (AfterHelper({"synth_sinewave", "synth_squarewave", "synth_rampwave", "synth_modulate"})
        /\ ~(call.op = "synth_squarewave" /\ BadSquare)) =>
        /\ call.ch \notin {1, 2} => call.exc = InvalidChannel /\ Untouched
        /\ call.ch \in {1, 2} =>
              /\ call.exc # InvalidChannel
              /\ call.exc = "ok" => \E f \in OfChannel(call.ch) : staged[f] # preStaged[f]

\* C8 (ramp as square wave): synth_rampwave on channel 1 or 2 with a symmetry s in 0..1
\* returns normally having staged what synth_squarewave stages for risetime = s, duty = s,
\* falltime = 1 - s: t0 = s, t1 = s, t2 = 1, waveform square, output enabled.
C8_RampAsSquare ==
    (AfterHelper({"synth_rampwave"}) /\ call.ch \in {1, 2}) =>
        /\ call.exc = "ok"
        /\ staged[ChannelField.t0[call.ch]] = <<call.symmetry>>
        /\ staged[ChannelField.t1[call.ch]] = <<call.symmetry>>
        /\ staged[ChannelField.t2[call.ch]] # <<>>
        /\ REq(staged[ChannelField.t2[call.ch]][1], RInt(1))
        /\ staged[ChannelField.waveform[call.ch]] = <<RInt(SG_WAVE_SQUARE)>>
        /\ staged[ChannelField.enable[call.ch]] = <<RInt(1)>>

\* C10 (all-or-nothing staging): a call of synth_sinewave, synth_squarewave or
\* synth_rampwave either returns having staged every field it sets for the channel, or
\* raises having changed nothing; it never changes a staged attribute of the other channel.
C10_AllOrNothing ==
    AfterHelper({"synth_sinewave", "synth_squarewave", "synth_rampwave"}) =>
        /\ \/ /\ call.exc = "ok" /\ call.ch \in {1, 2}
              /\ \A f \in (IF call.op = "synth_sinewave" THEN SineFields(call.ch)
                           ELSE SquareFields(call.ch)) : staged[f] # <<>>
           \/ call.exc # "ok" /\ Untouched
        /\ call.ch \in {1, 2} => \A f \in OfChannel(3 - call.ch) : staged[f] = preStaged[f]

(* ------------------------------------------------------------------ *)
(* The datalogger session: datalogger_start, datalogger_stop,          *)
(* datalogger_get_samples, datalogger_upload, datalogger_busy and the  *)
(* device's progress reports (session lifecycle of the documentation;  *)
(* called from examples/livestream_datalogger.py and                   *)
(* examples/plotly_datalogger.py)                                      *)
(* ------------------------------------------------------------------ *)
MaxDuration == 3

Filetypes == {"net", "plot", "sd"}
Durations == 1..MaxDuration

\* an operation ran: it gave a result and left a session
Did(op, result, s) ==
    /\ session' = s
    /\ lop' = [op |-> op, result |-> result]
    /\ lprev' = [session |-> session, op |-> lop.op,
                 restarted |-> lprev.restarted
                               \/ (op = "datalogger_start" /\ lop.op = "datalogger_stop"
                                   /\ result = "ok" /\ lprev.session.samples_captured > 0)]
    /\ UNCHANGED <<codecVars, synthVars>>

\* a start that does not look at the state of the session
StartSessionUnguarded(s, start, duration, filetype) ==
    [result |-> "ok",
     session |-> [state |-> "Running", start_offset |-> start, duration |-> duration,
                  filetype |-> filetype, samples_captured |-> 0,
                  elapsed_since_start |-> 0, remaining_to_end |-> duration,
                  last_error |-> "none", pending_chunks |-> 0, next_index |-> 0]]

\* datalogger_start(start, duration, filetype): what it returns and the session it leaves
StartSession(s, start, duration, filetype) ==
    IF s.state = "Running" THEN [result |-> "Busy", session |-> s]
    ELSE IF s.state # "Idle" THEN [result |-> "InvalidState", session |-> s]
    ELSE [result |-> "ok",
          session |-> [state |-> "Running", start_offset |-> start, duration |-> duration,
                       filetype |-> filetype, samples_captured |-> 0,
                       elapsed_since_start |-> 0, remaining_to_end |-> duration,
                       last_error |-> "none", pending_chunks |-> 0, next_index |-> 0]]

DataloggerStart ==
    \E duration \in Durations, filetype \in Filetypes :
        \E r \in {StartSession(session, 0, duration, filetype)} :
            Did("datalogger_start", r.result, r.session)

\* datalogger_stop(): always succeeds and ends in Idle, the progress discarded
DataloggerStop == Did("datalogger_stop", "ok", IdleSession)

\* datalogger_busy(): the query the example scripts make before starting
DataloggerBusy ==
    Did("datalogger_busy", IF session.state = "Running" THEN "busy" ELSE "free", session)

\* datalogger_get_samples(timeout): the next chunk in order, a timeout, or the end
DataloggerGetSamples ==
    IF session.state = "Idle" THEN Did("datalogger_get_samples", "InvalidState", session)
    ELSE IF session.pending_chunks > 0
    THEN Did("datalogger_get_samples", "data",
             [session EXCEPT !.pending_chunks = @ - 1, !.next_index = @ + 1])
    ELSE IF session.state = "Running" THEN Did("datalogger_get_samples", "Timeout", session)
    ELSE Did("datalogger_get_samples", "SessionEnded", session)

\* datalogger_upload(): only for a completed session with hosted storage
DataloggerUpload ==
    Did("datalogger_upload",
        IF session.state = "Completed" /\ session.filetype = "plot" THEN "ok" ELSE "InvalidState",
        session)

\* the device captures a chunk of a running session
DeviceProgress ==
    /\ session.state = "Running"
    /\ session.elapsed_since_start < session.duration
    /\ Did("device", "ok",
           [session EXCEPT !.samples_captured = @ + 1, !.elapsed_since_start = @ + 1,
                           !.remaining_to_end = @ - 1, !.pending_chunks = @ + 1])

\* the device reaches the end of the duration
DeviceComplete ==
    /\ session.state = "Running"
    /\ session.elapsed_since_start = session.duration
    /\ Did("device", "ok", [session EXCEPT !.state = "Completed"])

\* the device reports an error
DeviceError ==
    /\ session.state = "Running"
    /\ Did("device", "ok", [session EXCEPT !.state = "Errored", !.last_error = "error"])

LogInit == LogIdle /\ CodecIdle /\ SynthIdle

LogNext ==
    \/ DataloggerStart
    \/ DataloggerStop
    \/ DataloggerBusy
    \/ DataloggerGetSamples
    \/ DataloggerUpload
    \/ DeviceProgress
    \/ DeviceComplete
    \/ DeviceError

LogSpec == LogInit /\ [][LogNext]_vars

\* C7 (session lifecycle): datalogger_start called on a Running session fails with Busy
\* and leaves the session Running with its progress counters as they were;
\* datalogger_start called right after datalogger_stop, whatever the state before the
\* stop, succeeds, resets the progress counters and leaves the session Running.
C7_StartLifecycle ==
    lop.op = "datalogger_start" =>
        /\ lprev.session.state = "Running" =>
              /\ lop.result = "Busy"
              /\ session.state = "Running"
              /\ session.samples_captured = lprev.session.samples_captured
              /\ session.elapsed_since_start = lprev.session.elapsed_since_start
              /\ session.remaining_to_end = lprev.session.remaining_to_end
        /\ lprev.op = "datalogger_stop" =>
              /\ lop.result = "ok"
              /\ session.state = "Running"
              /\ session.samples_captured = 0
              /\ session.elapsed_since_start = 0

\* a start refused on a session that has captured samples, in a run where an earlier
\* start right after a stop of a session with progress succeeded
C7_Witness ==
    /\ lop = [op |-> "datalogger_start", result |-> "Busy"]
    /\ lprev.session.state = "Running"
    /\ session.samples_captured > 0
    /\ lprev.restarted

====
